---------------------------- MODULE Spec2Model ----------------------------
(***************************************************************************)
(* Model of the fund analysis engine of BaseMoneyPlus:                     *)
(*   src/moving_average_analyzer.py  MovingAverageAnalyzer                 *)
(*   src/fund_analyzer.py            FundAnalyzer                          *)
(*   src/deploy_temp/fund_data.py    FundDataFetcher                       *)
(*   src/main.py                     FundManager.generate_daily_report     *)
(*                                                                         *)
(* Numbers.  A NAV is an integer number of 1/10000 (the upstream quotes    *)
(* NAVs with four decimals), a moving average rounded to 4 decimals is an  *)
(* integer number of 1/10000, a deviation rounded to 2 decimals is an      *)
(* integer number of 1/100 percent.  Python's float arithmetic is modelled *)
(* by exact rational arithmetic followed by round-half-even, which is what *)
(* round() does on the exact value.  A date is a day number; ISO date      *)
(* strings compare as the day numbers do.                                  *)
(*                                                                         *)
(* Python values.  None is <<>>, a present optional value v is <<v>>, a    *)
(* dict is a function from its keys, the empty dict is <<>>.  A call that  *)
(* raises is the outcome [status |-> "raise", ...].                        *)
(***************************************************************************)
EXTENDS Integers, Sequences, FiniteSets, TLC

VARIABLES
    op,                 \* the operation that produced the current state
    net_values,         \* the series the operation worked on
    ma_data,            \* outcome of calculate_moving_averages
    position_analysis,  \* outcome of analyze_position
    calls,              \* strategies invoked by get_historical_net_values, in order
    invoked,            \* computations invoked by the last analysis call
    result,             \* outcome of the last analysis call
    args,               \* the inputs of the last call
    report,             \* state of generate_daily_report
    config              \* ConfigManager.config: the holdings and the watchlist

vars == <<op, net_values, ma_data, position_analysis, calls, invoked, result, args, report,
          config>>

-----------------------------------------------------------------------------
(* Bounds of the model                                                     *)

MaxSegs == 2        \* a generated series is made of at most MaxSegs flat runs
MaxItems == 2       \* an upstream payload lists at most MaxItems records
MaxDev == 3000      \* largest magnitude of an arbitrary deviation (0.01 %)
MaxFunds == 2       \* the configuration lists at most MaxFunds holdings
MaxDays == 3        \* predict_price is asked for at most MaxDays days
MaxCodes == 3       \* the configuration manager is given at most MaxCodes fund codes

-----------------------------------------------------------------------------
(* Python values                                                           *)

None == << >>
Some(v) == << v >>
EmptyDict == << >>
NoOutcome == [status |-> "none"]

Max(a, b) == IF a >= b THEN a ELSE b
Min(a, b) == IF a <= b THEN a ELSE b
Abs(a) == IF a < 0 THEN -a ELSE a

\* The integers of the checker are 32 bits wide; the products below are
\* formed from quotient and remainder so that none of them leaves that range.

\* the integer nearest to fl + rem / d (0 <= rem < d), ties to the even one
RoundFromParts(fl, rem, d) ==
    IF 2 * rem < d THEN fl
    ELSE IF 2 * rem > d THEN fl + 1
    ELSE IF fl % 2 = 0 THEN fl ELSE fl + 1

\* round(n / d), d > 0
RoundHalfEven(n, d) == RoundFromParts(n \div d, n % d, d)

\* << floor, remainder >> of (fl + rem / d) * 10^e
RECURSIVE ScaleParts(_, _, _, _)
ScaleParts(fl, rem, d, e) ==
    IF e = 0 THEN << fl, rem >>
    ELSE ScaleParts(fl * 10 + (rem * 10) \div d, (rem * 10) % d, d, e - 1)

\* round(n / d * 10^e), d # 0
ScaledDivRound(n, d, e) ==
    LET nn == IF d > 0 THEN n ELSE -n
        dd == IF d > 0 THEN d ELSE -d
        parts == ScaleParts(nn \div dd, nn % dd, dd, e)
    IN  RoundFromParts(parts[1], parts[2], dd)

\* round(a * b / d), d # 0
MulDivRound(a, b, d) ==
    LET bb == IF d > 0 THEN b ELSE -b
        dd == IF d > 0 THEN d ELSE -d
        p == (a % dd) * bb
    IN  RoundFromParts((a \div dd) * bb + p \div dd, p % dd, dd)

-----------------------------------------------------------------------------
(* Series: a list of records {'date', 'nav'}                               *)

NavLevels == {0, 9999, 10000, 12000}
SegLens == {1, 19, 20, 40, 60, 190, 250}

Segment == [nav : NavLevels, len : SegLens]

RECURSIVE SegSeqs(_)
SegSeqs(n) ==
    IF n = 0 THEN { << >> }
    ELSE LET shorter == SegSeqs(n - 1)
         IN  shorter \cup { Append(s, g) : s \in { t \in shorter : Len(t) = n - 1 }, g \in Segment }

RECURSIVE NavsOf(_)
NavsOf(segs) ==
    IF segs = << >> THEN << >>
    ELSE NavsOf(SubSeq(segs, 1, Len(segs) - 1))
            \o [i \in 1 .. segs[Len(segs)].len |-> segs[Len(segs)].nav]

\* the keys of a record of the structured history ('acc_nav', which every
\* strategy adds and nothing reads, is left out of all records)
HistoryKeys == { "date", "nav" }

\* the series listing navs on consecutive days 1, 2, ...
SeriesFromNavs(navs) == [i \in 1 .. Len(navs) |-> [date |-> i, nav |-> navs[i]]]

SeriesSet == { SeriesFromNavs(NavsOf(segs)) : segs \in SegSeqs(MaxSegs) }

RECURSIVE SumRange(_, _, _)
SumRange(s, lo, hi) ==
    IF lo > hi THEN 0
    ELSE IF lo = hi THEN s[lo]
    ELSE LET mid == (lo + hi) \div 2
         IN  SumRange(s, lo, mid) + SumRange(s, mid + 1, hi)

-----------------------------------------------------------------------------
(* MovingAverageAnalyzer.calculate_moving_averages                         *)

MA20 == 20
MA60 == 60
MA250 == 250
MA500 == 500

\* periods, in the dict's iteration order
MaNames == << "ma20", "ma60", "ma250", "ma500" >>
MaKeys == { "ma20", "ma60", "ma250", "ma500" }
periods == [ma20 |-> MA20, ma60 |-> MA60, ma250 |-> MA250, ma500 |-> MA500]

\* sum(navs[-period:])
WindowSum(navs, period) == SumRange(navs, Len(navs) - period + 1, Len(navs))

\* round(ma_value, 4) where ma_value = sum(navs[-period:]) / period
MaValue(navs, period) == RoundHalfEven(WindowSum(navs, period), period)

DeviationReversed(navs, period) ==
    LET s == WindowSum(navs, period)
        current_nav == navs[Len(navs)]
    IN  ScaledDivRound(s - current_nav * period, s, 4)

\* round(((current_nav - ma_value) / ma_value) * 100, 2); ma_value # 0
Deviation(navs, period) ==
    LET s == WindowSum(navs, period)
        current_nav == navs[Len(navs)]
    IN  ScaledDivRound(current_nav * period - s, s, 4)

\* the windows the loop reaches and computes
PresentWindows(navs) == { k \in MaKeys : Len(navs) >= periods[k] }

\* the division raises ZeroDivisionError when the window's average is 0.0
ZeroWindows(navs) == { k \in PresentWindows(navs) : WindowSum(navs, periods[k]) = 0 }

\* [item['nav'] for item in net_values] raises KeyError on an item without 'nav'
MissingNav(nv) == \E i \in 1 .. Len(nv) : "nav" \notin DOMAIN nv[i]

calculate_moving_averages(nv) ==
    IF nv = << >> THEN [status |-> "ok", value |-> EmptyDict]
    ELSE IF MissingNav(nv)
    THEN [status |-> "raise", exc |-> "KeyError", in |-> "calculate_moving_averages"]
    ELSE
        LET navs == [i \in 1 .. Len(nv) |-> nv[i].nav]
        IN  IF ZeroWindows(navs) # {}
            THEN [status |-> "raise", exc |-> "ZeroDivisionError",
                  in |-> "calculate_moving_averages"]
            ELSE [status |-> "ok",
                  value |->
                    [current_nav |-> navs[Len(navs)],
                     ma20  |-> IF "ma20" \in PresentWindows(navs)
                               THEN Some(MaValue(navs, MA20)) ELSE None,
                     ma60  |-> IF "ma60" \in PresentWindows(navs)
                               THEN Some(MaValue(navs, MA60)) ELSE None,
                     ma250 |-> IF "ma250" \in PresentWindows(navs)
                               THEN Some(MaValue(navs, MA250)) ELSE None,
                     ma500 |-> IF "ma500" \in PresentWindows(navs)
                               THEN Some(MaValue(navs, MA500)) ELSE None,
                     deviation |-> [k \in PresentWindows(navs) |->
                                        Deviation(navs, periods[k])]]]


-----------------------------------------------------------------------------
(* MovingAverageAnalyzer.analyze_position                                  *)

BandScoreSwapped(dev, lo, hi, sLo, sHi) ==
    IF dev < -hi THEN sHi
    ELSE IF dev < -lo THEN sLo
    ELSE IF dev > hi THEN -sLo
    ELSE IF dev > lo THEN -sHi
    ELSE 0

\* One window's if/elif chain: the score it adds for deviation dev, with
\* the moderate threshold lo and the deep threshold hi (in 0.01 %)
BandScore(dev, lo, hi, sLo, sHi) ==
    IF dev < -hi THEN sHi
    ELSE IF dev < -lo THEN sLo
    ELSE IF dev > hi THEN -sHi
    ELSE IF dev > lo THEN -sLo
    ELSE 0

BandKindNeverAround(dev, lo, hi) ==
    IF dev < -hi THEN "deep_below"
    ELSE IF dev < -lo THEN "below"
    ELSE IF dev > hi THEN "deep_above"
    ELSE "above"

\* the band's label, used by the narrative line and the position hint
BandKind(dev, lo, hi) ==
    IF dev < -hi THEN "deep_below"
    ELSE IF dev < -lo THEN "below"
    ELSE IF dev > hi THEN "deep_above"
    ELSE IF dev > lo THEN "above"
    ELSE "around"

ma20_score(dev)  == BandScore(dev, 500, 1000, 1, 2)
ma60_score(dev)  == BandScore(dev, 800, 1500, 2, 3)
ma250_score(dev) == BandScore(dev, 1000, 2000, 3, 4)
ma500_score_heaviest(dev) == BandScore(dev, 1500, 2500, 4, 5)
ma500_score(dev) == BandScore(dev, 1500, 2500, 2, 3)

ma20_kind(dev)  == BandKind(dev, 500, 1000)
ma60_kind(dev)  == BandKind(dev, 800, 1500)
ma250_kind(dev) == BandKind(dev, 1000, 2000)
ma500_kind(dev) == BandKind(dev, 1500, 2500)

WindowScore(k, dev) ==
    CASE k = "ma20"  -> ma20_score(dev)
      [] k = "ma60"  -> ma60_score(dev)
      [] k = "ma250" -> ma250_score(dev)
      [] k = "ma500" -> ma500_score(dev)

WindowKind(k, dev) ==
    CASE k = "ma20"  -> ma20_kind(dev)
      [] k = "ma60"  -> ma60_kind(dev)
      [] k = "ma250" -> ma250_kind(dev)
      [] k = "ma500" -> ma500_kind(dev)

\* the four "if 'maN' in deviation" blocks, run in order from window n on:
\* acc = [score, details, position_hints]
RECURSIVE ScoreWindows(_, _, _)
ScoreWindows(n, deviation, acc) ==
    IF n > Len(MaNames) THEN acc
    ELSE
        LET k == MaNames[n]
        IN  IF k \notin DOMAIN deviation
            THEN ScoreWindows(n + 1, deviation, acc)
            ELSE
                LET dev == deviation[k]
                    kind == WindowKind(k, dev)
                IN  ScoreWindows(n + 1, deviation,
                        [score |-> acc.score + WindowScore(k, dev),
                         details |-> IF kind = "around" THEN acc.details
                                     ELSE Append(acc.details,
                                                 [ma |-> k, kind |-> kind, dev |-> Abs(dev)]),
                         position_hints |-> Append(acc.position_hints,
                                                   [ma |-> k, kind |-> kind])])

ClampScoreNone(score) == score

\* score = max(-5, min(5, score))
ClampScore(score) == Max(-5, Min(5, score))

PositionOfUnknown(score) ==
    IF score >= 3 THEN "low"
    ELSE IF score >= 1 THEN "medium_low"
    ELSE IF score <= -3 THEN "high"
    ELSE IF score <= -1 THEN "medium_high"
    ELSE "unknown"

PositionOf(score) ==
    IF score >= 3 THEN "low"
    ELSE IF score >= 1 THEN "medium_low"
    ELSE IF score <= -3 THEN "high"
    ELSE IF score <= -1 THEN "medium_high"
    ELSE "medium"

SignalOfStrictSell(score) ==
    IF score >= 3 THEN "strong_buy"
    ELSE IF score >= 1 THEN "buy"
    ELSE IF score <= -3 THEN "strong_sell"
    ELSE IF score < -1 THEN "sell"
    ELSE "hold"

SignalOf(score) ==
    IF score >= 3 THEN "strong_buy"
    ELSE IF score >= 1 THEN "buy"
    ELSE IF score <= -3 THEN "strong_sell"
    ELSE IF score <= -1 THEN "sell"
    ELSE "hold"

analyze_position(md) ==
    IF md = EmptyDict \/ "current_nav" \notin DOMAIN md THEN EmptyDict
    ELSE
        LET acc == ScoreWindows(1, md.deviation,
                        [score |-> 0, details |-> << >>, position_hints |-> << >>])
            score == ClampScore(acc.score)
        IN  [position |-> PositionOf(score),
             signal |-> SignalOf(score),
             position_detail |-> SubSeq(acc.position_hints, 1, Min(2, Len(acc.position_hints))),
             strength |-> score,
             details |-> acc.details]

-----------------------------------------------------------------------------
(* Upstream payloads of the structured-history endpoint                    *)

\* One entry of LSJZList: FSRQ is its date, DWJZ its unit NAV; an entry
\* whose fields are missing or not numbers (KeyError, ValueError) has
\* ok = FALSE.  The accumulated NAV (LJJZ) is read by no computation and
\* is left out of the records.
Item == [FSRQ : 1 .. MaxItems, DWJZ : {10000}, ok : BOOLEAN]

RECURSIVE ItemLists(_)
ItemLists(n) ==
    IF n = 0 THEN { << >> }
    ELSE LET shorter == ItemLists(n - 1)
         IN  shorter \cup { Append(s, it) : s \in { t \in shorter : Len(t) = n - 1 },
                                            it \in { x \in Item : x.ok \/ x.FSRQ = 1 } }

\* a page of n records of one NAV, the most recent first, as the endpoint lists them
FlatPage(n, nav) == [i \in 1 .. n |-> [FSRQ |-> n + 1 - i, DWJZ |-> nav, ok |-> TRUE]]

LongPages == { FlatPage(20, 10000), FlatPage(20, 0), FlatPage(60, 12000) }

\* what a request to the history endpoint can do: the request times out or
\* fails, the status is an error, the body is not JSON, the body is neither
\* JSON nor a callback envelope, the payload has no LSJZList, or it has one
HistoryResponses ==
    { [kind |-> k, items |-> << >>] :
        k \in { "timeout", "neterr", "status", "badjson", "nomatch", "nodata" } }
    \cup { [kind |-> "list", items |-> l] : l \in (ItemLists(MaxItems) \ { << >> }) \cup LongPages }

\* what a request to the latest-estimate endpoint can do
EstimateResponses ==
    { [kind |-> k, dwjz |-> None, gztime |-> None] :
        k \in { "timeout", "neterr", "status", "nomatch", "badjson", "noest", "baddwjz" } }
    \cup { [kind |-> "estimate", dwjz |-> d, gztime |-> g] :
            d \in { None, Some(10000) }, g \in { None, Some(1) } }

\* start_date: None, a YYYY-MM-DD day, or (day 0) a string strptime rejects
StartDates == { None, Some(0), Some(1), Some(2) }
ValidDate(sd) == sd # None /\ sd[1] >= 1

\* datetime.now(), as a day number
Today == 9

-----------------------------------------------------------------------------
(* list.sort(key=lambda x: x['date']): a stable sort                       *)

\* the entries of the earliest date in their order in l, then those of the
\* next date, and so on
SortByDate(l) ==
    LET dates == { l[i].date : i \in 1 .. Len(l) }
        RECURSIVE Dated(_, _)
        Dated(lo, hi) ==
            IF lo = hi
            THEN LET OnDay(r) == r.date = lo IN SelectSeq(l, OnDay)
            ELSE LET mid == (lo + hi) \div 2
                 IN  Dated(lo, mid) \o Dated(mid + 1, hi)
    IN  IF Len(l) <= 1 THEN l
        ELSE Dated(CHOOSE d \in dates : \A e \in dates : d <= e,
                   CHOOSE d \in dates : \A e \in dates : d >= e)

\* the loop over LSJZList: an entry that raises ValueError/KeyError is skipped
RECURSIVE ParseItems(_)
ParseItems(items) ==
    IF items = << >> THEN << >>
    ELSE IF Len(items) = 1
    THEN (IF items[1].ok THEN << [date |-> items[1].FSRQ, nav |-> items[1].DWJZ] >>
          ELSE << >>)
    ELSE LET mid == Len(items) \div 2
         IN  ParseItems(SubSeq(items, 1, mid))
                \o ParseItems(SubSeq(items, mid + 1, Len(items)))

Raise(e, f) == [status |-> "raise", exc |-> e, in |-> f]
Return(v) == [status |-> "ok", value |-> v]

-----------------------------------------------------------------------------
(* The three strategies of MovingAverageAnalyzer                           *)

_get_from_eastmoney_api1(resp, start_date) ==
    IF start_date # None /\ ~ValidDate(start_date)
    THEN Raise("ValueError", "_get_from_eastmoney_api1")
    ELSE CASE resp.kind = "timeout" -> Raise("Timeout", "_get_from_eastmoney_api1")
           [] resp.kind = "neterr"  -> Raise("ConnectionError", "_get_from_eastmoney_api1")
           [] resp.kind = "status"  -> Raise("HTTPError", "_get_from_eastmoney_api1")
           [] resp.kind \in { "badjson", "nomatch" } ->
                                       Raise("JSONDecodeError", "_get_from_eastmoney_api1")
           [] resp.kind = "nodata"  -> Return(<< >>)
           [] resp.kind = "list"    -> Return(SortByDate(ParseItems(resp.items)))

_get_from_eastmoney_api2(resp, start_date) ==
    CASE resp.kind = "timeout" -> Raise("Timeout", "_get_from_eastmoney_api2")
      [] resp.kind = "neterr"  -> Raise("ConnectionError", "_get_from_eastmoney_api2")
      [] resp.kind = "status"  -> Raise("HTTPError", "_get_from_eastmoney_api2")
      [] resp.kind = "nomatch" -> Return(<< >>)
      [] resp.kind = "badjson" -> Raise("JSONDecodeError", "_get_from_eastmoney_api2")
      [] resp.kind = "noest"   -> Return(<< >>)
      [] resp.kind = "baddwjz" -> Raise("ValueError", "_get_from_eastmoney_api2")
      [] resp.kind = "estimate" ->
            Return(<< [date |-> IF resp.gztime = None THEN Today ELSE resp.gztime[1],
                       nav  |-> IF resp.dwjz = None THEN 0 ELSE resp.dwjz[1]] >>)

_get_from_ttjj(resp, start_date) ==
    IF start_date # None /\ ~ValidDate(start_date)
    THEN Raise("ValueError", "_get_from_ttjj")
    ELSE CASE resp.kind = "timeout" -> Raise("Timeout", "_get_from_ttjj")
           [] resp.kind = "neterr"  -> Raise("ConnectionError", "_get_from_ttjj")
           [] resp.kind = "status"  -> Raise("HTTPError", "_get_from_ttjj")
           [] resp.kind = "nomatch" -> Return(<< >>)
           [] resp.kind = "badjson" -> Raise("JSONDecodeError", "_get_from_ttjj")
           [] resp.kind = "nodata"  -> Return(<< >>)
           [] resp.kind = "list"    -> Return(SortByDate(ParseItems(resp.items)))

\* apis = [api1, api2, ttjj]
NumApis == 3

ApiCall(i, resp, start_date) ==
    CASE i = 1 -> _get_from_eastmoney_api1(resp, start_date)
      [] i = 2 -> _get_from_eastmoney_api2(resp, start_date)
      [] i = 3 -> _get_from_ttjj(resp, start_date)

ResponsesOf(i) == IF i = 2 THEN EstimateResponses ELSE HistoryResponses

-----------------------------------------------------------------------------
(* MovingAverageAnalyzer.get_historical_net_values                         *)

\* what the loop body does with the outcome r of api_func(...)
ApiStepNoReturn(r) == "continue"

ApiStepNoExcept(r) ==
    IF r.status = "raise" THEN "propagate"
    ELSE IF r.value # << >> THEN "return"
    ELSE "continue"

ApiStep(r) ==
    IF r.status = "raise" THEN "continue"       \* except Exception: continue
    ELSE IF r.value # << >> THEN "return"       \* if net_values: return net_values
    ELSE "continue"

OutcomeOf(r) ==
    IF r.status = "raise" THEN "raise"
    ELSE IF r.value # << >> THEN "data" ELSE "empty"

\* the for loop from strategy i on; trace lists the strategies invoked so far
RECURSIVE TryApis(_, _, _, _)
TryApis(i, resps, start_date, trace) ==
    IF i > NumApis THEN [status |-> "ok", value |-> << >>, calls |-> trace]
    ELSE
        LET r == ApiCall(i, resps[i], start_date)
            step == ApiStep(r)
            trace2 == Append(trace, [api |-> i, outcome |-> OutcomeOf(r),
                                     value |-> IF r.status = "ok" THEN r.value ELSE << >>])
        IN  CASE step = "return"    -> [status |-> "ok", value |-> r.value, calls |-> trace2]
              [] step = "continue"  -> TryApis(i + 1, resps, start_date, trace2)
              [] step = "propagate" -> [status |-> "raise", exc |-> r.exc, in |-> r.in,
                                        value |-> << >>, calls |-> trace2]

get_historical_net_values(resps, start_date) == TryApis(1, resps, start_date, << >>)

-----------------------------------------------------------------------------
(* Auxiliary signals: get_fund_flow, get_fund_scale_info, get_fund_hot_info *)

FlowResponses == { [kind |-> k] : k \in { "neterr", "status", "badjson", "nodata", "ok" } }
ScaleResponses == { [kind |-> k] : k \in { "neterr", "status", "nomatch", "ok" } }
HotResponses ==
    { [kind |-> k, type |-> FALSE, sectors |-> << >>] : k \in { "neterr", "status" } }
    \cup { [kind |-> "page", type |-> t, sectors |-> sc] :
            t \in BOOLEAN, sc \in { << >>, << "liquor", "medicine", "tech" >> } }

\* the endpoints' responses and analyze_fund's include_flow / include_hot
AuxInputs == [flow : FlowResponses, scale : ScaleResponses, hot : HotResponses,
              include_flow : BOOLEAN, include_hot : BOOLEAN]

get_fund_flow_unguarded(resp) ==
    IF resp.kind = "ok"
    THEN Return([has_data |-> TRUE, net_flow |-> None, flow_trend |-> "no_data"])
    ELSE IF resp.kind = "nodata"
    THEN Return([has_data |-> FALSE, flow_trend |-> "no_data"])
    ELSE Raise(resp.kind, "get_fund_flow")

get_fund_flow(resp) ==
    IF resp.kind = "ok"
    THEN Return([has_data |-> TRUE, net_flow |-> None, flow_trend |-> "no_data"])
    ELSE \* no 'data' in the payload, or except Exception
         Return([has_data |-> FALSE, flow_trend |-> "no_data"])

get_fund_scale_info(resp) ==
    IF resp.kind = "ok"
    THEN Return([has_data |-> TRUE, trend |-> "stable"])
    ELSE \* no Data_fluctuationScale in the page, or except Exception
         Return([has_data |-> FALSE, trend |-> "no_data"])

get_fund_hot_info(resp) ==
    IF resp.kind = "page"
    THEN Return([has_data |-> resp.type,
                 hot_sectors |-> resp.sectors,
                 market_sentiment |-> IF resp.sectors # << >> THEN "active" ELSE "neutral"])
    ELSE \* except Exception
         Return([has_data |-> FALSE, hot_sectors |-> << >>, market_sentiment |-> "neutral"])

\* the endpoint failed: request error, error status, or payload without the data
FlowFailed(a) == a.flow.kind # "ok"
ScaleFailed(a) == a.scale.kind # "ok"
HotFailed(a) == a.hot.kind # "page" \/ ~a.hot.type

-----------------------------------------------------------------------------
(* MovingAverageAnalyzer.analyze_fund, from the fetched series on          *)

\* for nv in net_values: if nv['date'] >= start_date: start_nav = nv['nav']; break
FirstNavFrom(nv, i, day) ==
    LET later == { j \in i .. Len(nv) : nv[j].date >= day }
    IN  IF later = {} THEN None
        ELSE Some(nv[CHOOSE j \in later : \A k \in later : j <= k].nav)

InvestmentReturn(nv, start_date, current_nav) ==
    IF start_date = None THEN None
    ELSE LET start_nav == FirstNavFrom(nv, 1, start_date[1])
         IN  IF start_nav = None \/ start_nav = Some(0) THEN None
             ELSE Some([start_date |-> start_date[1],
                        start_nav |-> start_nav[1],
                        current_nav |-> current_nav,
                        return_rate |-> ScaledDivRound(current_nav - start_nav[1],
                                                       start_nav[1], 4)])

\* a: the auxiliary endpoints' responses and the include_flow / include_hot flags
AnalyzeFetched(nv, start_date, a) ==
    IF nv = << >>
    THEN [status |-> "ok", invoked |-> {},
          value |-> [error |-> "cannot get historical data"]]
    ELSE
        LET ma == calculate_moving_averages(nv)
            flow == get_fund_flow(a.flow)
            scale == get_fund_scale_info(a.scale)
            hot == get_fund_hot_info(a.hot)
        IN  IF ma.status = "raise"
            THEN [status |-> "raise", exc |-> ma.exc, in |-> ma.in,
                  invoked |-> { "calculate_moving_averages" }]
            ELSE IF a.include_flow /\ flow.status = "raise"
            THEN [status |-> "raise", exc |-> flow.exc, in |-> flow.in,
                  invoked |-> { "calculate_moving_averages", "analyze_position" }]
            ELSE IF a.include_flow /\ scale.status = "raise"
            THEN [status |-> "raise", exc |-> scale.exc, in |-> scale.in,
                  invoked |-> { "calculate_moving_averages", "analyze_position" }]
            ELSE IF a.include_hot /\ hot.status = "raise"
            THEN [status |-> "raise", exc |-> hot.exc, in |-> hot.in,
                  invoked |-> { "calculate_moving_averages", "analyze_position" }]
            ELSE [status |-> "ok",
                  invoked |-> { "calculate_moving_averages", "analyze_position" },
                  value |->
                    [current_nav |-> ma.value.current_nav,
                     moving_averages |-> [k \in MaKeys |-> ma.value[k]],
                     deviation |-> ma.value.deviation,
                     position_analysis |-> analyze_position(ma.value),
                     investment_return |->
                        InvestmentReturn(nv, start_date, ma.value.current_nav),
                     flow_info |-> IF a.include_flow THEN Some(flow.value) ELSE None,
                     scale_info |-> IF a.include_flow THEN Some(scale.value) ELSE None,
                     hot_info |-> IF a.include_hot THEN Some(hot.value) ELSE None,
                     data_points |-> Len(nv)]]

\* the whole call: fetch, then analyse
analyze_fund(resps, start_date, a) ==
    LET fetched == get_historical_net_values(resps, start_date)
    IN  IF fetched.status = "raise"
        THEN [status |-> "raise", exc |-> fetched.exc, in |-> fetched.in, invoked |-> {}]
        ELSE AnalyzeFetched(fetched.value, start_date, a)

-----------------------------------------------------------------------------
(* FundDataFetcher (src/deploy_temp/fund_data.py)                          *)

\* One entry of LSJZList as get_historical_data reads it: JZZZL is the
\* day's change rate in 0.01 %.
HistItem == [FSRQ : 1 .. MaxItems, DWJZ : {10000}, JZZZL : {-50, 120}, ok : BOOLEAN]

RECURSIVE HistItemLists(_)
HistItemLists(n) ==
    IF n = 0 THEN { << >> }
    ELSE LET shorter == HistItemLists(n - 1)
         IN  shorter \cup { Append(s, it) : s \in { t \in shorter : Len(t) = n - 1 },
                                            it \in { x \in HistItem :
                                                        x.ok \/ (x.FSRQ = 1 /\ x.JZZZL = 120) } }

\* a page listing navs (oldest first in navs) the most recent first, the
\* change rate of each day derived from the previous day's NAV
ChangeRate(navs, i) ==
    IF i = 1 \/ navs[i - 1] = 0 THEN 0
    ELSE ScaledDivRound(navs[i] - navs[i - 1], navs[i - 1], 4)

PageOf(navs) ==
    [i \in 1 .. Len(navs) |->
        [FSRQ |-> Len(navs) + 1 - i,
         DWJZ |-> navs[Len(navs) + 1 - i],
         JZZZL |-> ChangeRate(navs, Len(navs) + 1 - i),
         ok |-> TRUE]]

HistNavs ==
    { << 10000, 10000, 10000, 10000 >>,
      << 10000, 10100, 10200, 10300, 10500 >>,
      << 10500, 10400, 10000, 10100, 9900, 9800 >>,
      << 0, 0, 0, 0, 0 >>,
      [i \in 1 .. 12 |-> 10000 + 37 * i],
      [i \in 1 .. 22 |-> 12000 - 100 * i],
      [i \in 1 .. 22 |-> IF i <= 11 THEN 9000 + 100 * i ELSE 10100 + 50 * (i - 11)] }

HistPages == { PageOf(navs) : navs \in HistNavs }

\* what the request of get_historical_data can do
HistDataResponses ==
    { [kind |-> k, items |-> << >>] :
        k \in { "timeout", "neterr", "status", "badjson", "badjsonp", "nodata" } }
    \cup { [kind |-> "list", items |-> l] :
            l \in (HistItemLists(MaxItems) \ { << >> }) \cup HistPages }

\* for item in reversed(LSJZList): records.append({...})
RECURSIVE ReversedRecords(_)
ReversedRecords(items) ==
    IF items = << >> THEN << >>
    ELSE IF Len(items) = 1
    THEN << [date |-> items[1].FSRQ,
             nav |-> items[1].DWJZ,
             change_rate |-> items[1].JZZZL] >>
    ELSE LET mid == Len(items) \div 2
         IN  ReversedRecords(SubSeq(items, mid + 1, Len(items)))
                \o ReversedRecords(SubSeq(items, 1, mid))

get_historical_data(resp) ==
    CASE resp.kind \in { "timeout", "neterr" } -> << >>       \* except Exception
      [] resp.kind = "status"   -> << >>                      \* status_code != 200
      [] resp.kind = "badjson"  -> << >>                      \* no envelope: data = None
      [] resp.kind = "badjsonp" -> << >>                      \* json.loads raises
      [] resp.kind = "nodata"   -> << >>                      \* records stays []
      [] resp.kind = "list"     ->
            IF \E i \in 1 .. Len(resp.items) : ~resp.items[i].ok
            THEN << >>                                        \* float() or item[...] raises
            ELSE ReversedRecords(resp.items)

\* what the two requests of get_fund_data can do
CurrentResponses ==
    { [kind |-> k, date |-> 0] :
        k \in { "timeout", "neterr", "status", "badjson", "badjsonp", "nodata", "baditem" } }
    \cup { [kind |-> "list", date |-> d] : d \in { 1, Today } }

AlternativeResponses ==
    { [kind |-> k, gztime |-> None] :
        k \in { "timeout", "neterr", "status", "noenvelope", "badjson", "badgsz" } }
    \cup { [kind |-> "estimate", gztime |-> g] : g \in { None, Some(Today) } }

_get_fund_data_alternative(alt) ==
    IF alt.kind = "estimate"
    THEN Some([date |-> alt.gztime, is_today |-> FALSE, source |-> "alternative"])
    ELSE None

\* the endpoints one call of get_fund_data requests, in order
FundDataEndpoints(resp) ==
    IF resp.kind \in { "status", "badjson", "nodata" }
    THEN << "primary", "alternative" >>
    ELSE << "primary" >>

get_fund_data(resp, alt) ==
    CASE resp.kind \in { "timeout", "neterr" } -> None        \* except Exception
      [] resp.kind \in { "badjsonp", "baditem" } -> None      \* except Exception
      [] resp.kind \in { "status", "badjson", "nodata" } -> _get_fund_data_alternative(alt)
      [] resp.kind = "list" ->
            Some([date |-> Some(resp.date), is_today |-> (resp.date = Today),
                  source |-> "primary"])

-----------------------------------------------------------------------------
(* FundAnalyzer.calculate_returns                                          *)

\* cost_basis is in 1/10000 like a NAV, amount in 1/100 of the currency,
\* rates in 0.01 %, shares in 1/100
calculate_returns_first_nav(historical_data, cost_basis, amount) ==
    IF historical_data = << >> THEN Return(None)
    ELSE IF cost_basis = 0 THEN Raise("ZeroDivisionError", "calculate_returns")
    ELSE
        LET latest_nav == historical_data[1].nav
            today_change == historical_data[Len(historical_data)].change_rate
        IN  Return(Some(
                [return_rate  |-> ScaledDivRound(latest_nav - cost_basis, cost_basis, 4),
                 total_profit |-> MulDivRound(amount, latest_nav - cost_basis, cost_basis),
                 today_change |-> today_change,
                 today_profit |-> MulDivRound(amount, today_change, 10000),
                 market_value |-> MulDivRound(amount, latest_nav, cost_basis),
                 shares       |-> MulDivRound(amount, 10000, cost_basis),
                 cost_basis   |-> cost_basis,
                 current_nav  |-> latest_nav]))

calculate_returns_shares_by_nav(historical_data, cost_basis, amount) ==
    IF historical_data = << >> THEN Return(None)
    ELSE IF cost_basis = 0 THEN Raise("ZeroDivisionError", "calculate_returns")
    ELSE
        LET latest_nav == historical_data[Len(historical_data)].nav
            today_change == historical_data[Len(historical_data)].change_rate
        IN  Return(Some(
                [return_rate  |-> ScaledDivRound(latest_nav - cost_basis, cost_basis, 4),
                 total_profit |-> MulDivRound(amount, latest_nav - cost_basis, cost_basis),
                 today_change |-> today_change,
                 today_profit |-> MulDivRound(amount, today_change, 10000),
                 market_value |-> MulDivRound(amount, latest_nav, cost_basis),
                 shares       |-> MulDivRound(amount, 10000, Max(latest_nav, 1)),
                 cost_basis   |-> cost_basis,
                 current_nav  |-> latest_nav]))

calculate_returns_fallback(historical_data, cost_basis, amount) ==
    IF historical_data = << >>
    THEN IF cost_basis = 0 THEN Raise("ZeroDivisionError", "calculate_returns")
         ELSE Return(Some(
                [return_rate  |-> 0,
                 total_profit |-> 0,
                 today_change |-> 0,
                 today_profit |-> 0,
                 market_value |-> amount,
                 shares       |-> MulDivRound(amount, 10000, cost_basis),
                 cost_basis   |-> cost_basis,
                 current_nav  |-> cost_basis]))
    ELSE IF cost_basis = 0 THEN Raise("ZeroDivisionError", "calculate_returns")
    ELSE
        LET latest_nav == historical_data[Len(historical_data)].nav
            today_change == historical_data[Len(historical_data)].change_rate
        IN  Return(Some(
                [return_rate  |-> ScaledDivRound(latest_nav - cost_basis, cost_basis, 4),
                 total_profit |-> MulDivRound(amount, latest_nav - cost_basis, cost_basis),
                 today_change |-> today_change,
                 today_profit |-> MulDivRound(amount, today_change, 10000),
                 market_value |-> MulDivRound(amount, latest_nav, cost_basis),
                 shares       |-> MulDivRound(amount, 10000, cost_basis),
                 cost_basis   |-> cost_basis,
                 current_nav  |-> latest_nav]))

calculate_returns(historical_data, cost_basis, amount) ==
    IF historical_data = << >> THEN Return(None)
    ELSE IF cost_basis = 0 THEN Raise("ZeroDivisionError", "calculate_returns")
    ELSE
        LET latest_nav == historical_data[Len(historical_data)].nav
            today_change == historical_data[Len(historical_data)].change_rate
        IN  Return(Some(
                [return_rate  |-> ScaledDivRound(latest_nav - cost_basis, cost_basis, 4),
                 total_profit |-> MulDivRound(amount, latest_nav - cost_basis, cost_basis),
                 today_change |-> today_change,
                 today_profit |-> MulDivRound(amount, today_change, 10000),
                 market_value |-> MulDivRound(amount, latest_nav, cost_basis),
                 shares       |-> MulDivRound(amount, 10000, cost_basis),
                 cost_basis   |-> cost_basis,
                 current_nav  |-> latest_nav]))

-----------------------------------------------------------------------------
(* numpy floats: a finite value, or nan / inf / -inf                       *)

Fin(v) == [fin |-> TRUE, v |-> v]
NaN == [fin |-> FALSE, v |-> 0]
PosInf == [fin |-> FALSE, v |-> 1]
NegInf == [fin |-> FALSE, v |-> -1]

\* round(n / d * 10^e), where a division by 0.0 gives inf or nan, not an exception
FloatDiv(n, d, e) ==
    IF d = 0 THEN (IF n > 0 THEN PosInf ELSE IF n < 0 THEN NegInf ELSE NaN)
    ELSE Fin(ScaledDivRound(n, d, e))

NavList(historical_data) == [i \in 1 .. Len(historical_data) |-> historical_data[i].nav]

-----------------------------------------------------------------------------
(* FundAnalyzer.analyze_trend                                              *)

RECURSIVE SumSquares(_, _, _)
SumSquares(s, lo, hi) ==
    IF lo > hi THEN 0
    ELSE IF lo = hi THEN s[lo] * s[lo]
    ELSE LET mid == (lo + hi) \div 2
         IN  SumSquares(s, lo, mid) + SumSquares(s, mid + 1, hi)

\* round(sqrt(a / b)) for a >= 0, b > 0: the least v with a/b < (v + 1/2)^2
\* at or above v, found by bisection; (2w + 1)^2 * b > 4a is tested by division
SqrtRoundFrom(v, a, b) ==
    LET q == (4 * a) \div b
        Above(w) == 2 * w + 1 > q \div (2 * w + 1)
        RECURSIVE Upper(_)
        Upper(w) == IF Above(w) THEN w ELSE Upper(2 * w + 1)
        RECURSIVE Least(_, _)
        Least(lo, hi) ==
            IF lo = hi THEN lo
            ELSE LET mid == (lo + hi) \div 2
                 IN  IF Above(mid) THEN Least(lo, mid) ELSE Least(mid + 1, hi)
    IN  Least(v, Upper(v))

\* df['change_rate'].std(): the sample standard deviation
Volatility(historical_data) ==
    LET n == Len(historical_data)
        c == [i \in 1 .. n |-> historical_data[i].change_rate]
        sum == SumRange(c, 1, n)
    IN  SqrtRoundFrom(0, n * SumSquares(c, 1, n) - sum * sum, n * (n - 1))

\* rolling(window=w).mean() at the latest record: NaN below w observations
RollingMean(navs, w) ==
    IF Len(navs) < w THEN NaN ELSE Fin(RoundHalfEven(WindowSum(navs, w), w))

TrendUpNonStrict(navs) ==
    /\ Len(navs) >= 20
    /\ 2 * WindowSum(navs, 5) >= WindowSum(navs, 10)
    /\ 2 * WindowSum(navs, 10) >= WindowSum(navs, 20)

\* latest['ma5'] > latest['ma10'] > latest['ma20'], false when one is NaN
TrendUp(navs) ==
    /\ Len(navs) >= 20
    /\ 2 * WindowSum(navs, 5) > WindowSum(navs, 10)
    /\ 2 * WindowSum(navs, 10) > WindowSum(navs, 20)

TrendDown(navs) ==
    /\ Len(navs) >= 20
    /\ 2 * WindowSum(navs, 5) < WindowSum(navs, 10)
    /\ 2 * WindowSum(navs, 10) < WindowSum(navs, 20)

analyze_trend(historical_data) ==
    IF Len(historical_data) < 5
    THEN [trend |-> "insufficient", strength |-> Fin(0), volatility |-> Fin(0)]
    ELSE
        LET navs == NavList(historical_data)
        IN  [trend |-> IF TrendUp(navs) THEN "up"
                       ELSE IF TrendDown(navs) THEN "down" ELSE "sideways",
             strength |-> FloatDiv(navs[Len(navs)] - navs[1], navs[1], 4),
             volatility |-> Fin(Volatility(historical_data)),
             ma5 |-> RollingMean(navs, 5),
             ma10 |-> RollingMean(navs, 10),
             ma20 |-> RollingMean(navs, 20)]

-----------------------------------------------------------------------------
(* FundAnalyzer.predict_price                                              *)

\* lookback = min(10, len(df) - 1)
Lookback(navs) == Min(10, Len(navs) - 1)

\* The least-squares line through (x_i, y_i), x_i = len-n .. len-1 and
\* y_i the last n navs, evaluated at x = len + k, is RawNum(navs, k) / RawDen(navs):
\*   S = sum y_i,  T = sum (2i - n - 1) y_i,  slope = 6T / (n (n^2 - 1)),
\*   prediction = S / n + slope * (2k + n + 1) / 2
WeightedSum(navs, n, i) ==
    SumRange([j \in 1 .. n |-> (2 * j - n - 1) * navs[Len(navs) - n + j]], i, n)

RawDen(navs) == LET n == Lookback(navs) IN n * (n * n - 1)

RawNum(navs, k) ==
    LET n == Lookback(navs)
    IN  WindowSum(navs, n) * (n * n - 1) + 3 * WeightedSum(navs, n, 1) * (2 * k + n + 1)

\* predicted_changes: ((pred - current_nav) / current_nav) * 100 for pred in predictions
PredictedChange(navs, k) ==
    LET current_nav == navs[Len(navs)]
    IN  FloatDiv(RawNum(navs, k) - current_nav * RawDen(navs), current_nav * RawDen(navs), 4)

RECURSIVE SumRawNum(_, _, _)
SumRawNum(navs, lo, hi) ==
    IF lo > hi THEN 0 ELSE RawNum(navs, lo) + SumRawNum(navs, lo + 1, hi)

SmoothedNavUnsmoothed(navs, days, k) == RoundHalfEven(RawNum(navs, k), RawDen(navs))

\* What the loop would compute if it wrote each mean back into predictions
\* before the next step: step j (from 0) is Num(j) / (Den(j) * RawDen)
SmoothedNavRecursive(navs, days, k) ==
    LET window == Min(3, days)
        RECURSIVE Den(_)
        Den(j) == IF j = 0 THEN 1 ELSE (j - Max(0, j - window + 1) + 1) * Den(j - 1)
        RECURSIVE Num(_)
        Num(j) ==
            IF j = 0 THEN RawNum(navs, 0)
            ELSE
                LET start == Max(0, j - window + 1)
                    prev == Den(j - 1)
                    Earlier[i \in start .. j] ==
                        IF i = j THEN 0
                        ELSE Num(i) * (prev \div Den(i)) + Earlier[i + 1]
                IN  Earlier[start] + RawNum(navs, j) * prev
    IN  RoundHalfEven(Num(k), Den(k) * RawDen(navs))

\* ma_predictions[i] = np.mean(predictions[start:i+1]), start = max(0, i - window + 1);
\* with a single prediction the smoothing pass is skipped
SmoothedNav(navs, days, k) ==
    LET window == Min(3, days)
        start == Max(0, k - window + 1)
    IN  IF days > 1
        THEN RoundHalfEven(SumRawNum(navs, start, k), (k - start + 1) * RawDen(navs))
        ELSE RoundHalfEven(RawNum(navs, k), RawDen(navs))

predict_price_partial(historical_data, days) ==
    IF historical_data = << >> THEN None
    ELSE
        LET navs == NavList(historical_data)
        IN  Some([i \in 1 .. Min(days, Len(navs) - 1) |->
                    [day |-> i,
                     predicted_nav |-> navs[Len(navs)],
                     predicted_change |-> Fin(0)]])

predict_price(historical_data, days) ==
    IF Len(historical_data) < 5 THEN None
    ELSE IF days < 1 THEN None          \* predict on no samples raises; except: return None
    ELSE
        LET navs == NavList(historical_data)
        IN  Some([i \in 1 .. days |->
                    [day |-> i,
                     predicted_nav |-> SmoothedNav(navs, days, i - 1),
                     predicted_change |-> PredictedChange(navs, i - 1)]])

PredictionDays == 5

-----------------------------------------------------------------------------
(* FundAnalyzer.get_fund_analysis, from the fetched data on                *)

HistoricalDataMissingNever(historical_data) == FALSE

\* if not historical_data: return None
HistoricalDataMissing(historical_data) == historical_data = << >>

\* current_data: what get_fund_data returned; historical_data: what
\* get_historical_data returned; ma: the outcome of ma_analyzer.analyze_fund
\* (used only when include_ma_analysis)
AnalyzeHistorical(current_data, historical_data, cost_basis, amount, include_ma_analysis, ma) ==
    IF HistoricalDataMissing(historical_data)
    THEN [status |-> "ok", invoked |-> {}, value |-> None]
    ELSE
        LET returns == calculate_returns(historical_data, cost_basis, amount)
        IN  IF returns.status = "raise"
            THEN [status |-> "raise", exc |-> returns.exc, in |-> returns.in,
                  invoked |-> { "calculate_returns" }]
            ELSE
                LET record ==
                        [returns |-> returns.value,
                         trend |-> analyze_trend(historical_data),
                         prediction |-> predict_price(historical_data, PredictionDays),
                         historical_data |-> historical_data,
                         is_today |-> IF current_data = None THEN FALSE
                                      ELSE current_data[1].is_today,
                         data_date |-> IF current_data = None THEN None
                                       ELSE current_data[1].date]
                IN  [status |-> "ok",
                     invoked |-> { "calculate_returns", "analyze_trend", "predict_price" }
                                 \cup (IF include_ma_analysis THEN ma.invoked ELSE {}),
                     value |-> Some(
                        IF ~include_ma_analysis THEN record
                        ELSE record @@ [ma_analysis |->
                                IF ma.status = "raise" THEN None    \* except Exception
                                ELSE Some(ma.value)])]

-----------------------------------------------------------------------------
(* Inputs of the analysis calls                                            *)

CostBases == { 0, 10000, 12500 }
Amounts == { 1000000 }

\* the upstream's behaviour during one call of ma_analyzer.analyze_fund
AllOk == [flow |-> [kind |-> "ok"], scale |-> [kind |-> "ok"],
          hot |-> [kind |-> "page", type |-> TRUE, sectors |-> << >>],
          include_flow |-> TRUE, include_hot |-> TRUE]
AllDown == [flow |-> [kind |-> "neterr"], scale |-> [kind |-> "status"],
            hot |-> [kind |-> "neterr", type |-> FALSE, sectors |-> << >>],
            include_flow |-> TRUE, include_hot |-> TRUE]
Down == [kind |-> "timeout", items |-> << >>]
EstimateDown == [kind |-> "timeout", dwjz |-> None, gztime |-> None]

MaScenarios ==
    { [resps |-> << Down, EstimateDown, Down >>, aux |-> AllDown],
      [resps |-> << [kind |-> "list", items |-> FlatPage(20, 10000)], EstimateDown, Down >>,
       aux |-> AllOk],
      [resps |-> << Down, EstimateDown, [kind |-> "list", items |-> FlatPage(20, 0)] >>,
       aux |-> AllOk],
      [resps |-> << Down, [kind |-> "estimate", dwjz |-> Some(10000), gztime |-> Some(1)], Down >>,
       aux |-> AllDown] }

-----------------------------------------------------------------------------
(* Specification Spec: calls of the analysis engine on a fresh analyzer    *)

NoArgs == [start_date |-> None]
ReportIdle == [pc |-> "idle"]

\* load_config without a configuration file: no holdings, no watchlist
\* (a dict is a function from its keys, here the fund codes)
EmptyConfig == [holdings |-> << >>, watchlist |-> << >>]

Init ==
    /\ op = "init"
    /\ args = NoArgs
    /\ net_values = << >>
    /\ calls = << >>
    /\ invoked = {}
    /\ result = NoOutcome
    /\ ma_data = NoOutcome
    /\ position_analysis = NoOutcome
    /\ report = ReportIdle
    /\ config = EmptyConfig

\* a call of MovingAverageAnalyzer.get_historical_net_values(fund_code, start_date)
GetHistoricalNetValues ==
    /\ op = "init"
    /\ \E sd \in StartDates, r1 \in ResponsesOf(1), r2 \in ResponsesOf(2), r3 \in ResponsesOf(3) :
        LET fetched == get_historical_net_values(<< r1, r2, r3 >>, sd)
        IN  /\ op' = "get_historical_net_values"
            /\ args' = [start_date |-> sd]
            /\ net_values' = fetched.value
            /\ calls' = fetched.calls
            /\ invoked' = {}
            /\ result' = [status |-> fetched.status]
            /\ UNCHANGED << ma_data, position_analysis, report, config >>

\* MovingAverageAnalyzer.analyze_fund, continuing from the series its call
\* of get_historical_net_values returned
AnalyzeFund ==
    /\ op = "get_historical_net_values"
    /\ result.status = "ok"
    /\ \E a \in AuxInputs :
        LET r == AnalyzeFetched(net_values, args.start_date, a)
        IN  /\ op' = "analyze_fund"
            /\ args' = [start_date |-> args.start_date, aux |-> a]
            /\ invoked' = r.invoked
            /\ result' = r
            /\ UNCHANGED << net_values, calls, ma_data, position_analysis, report, config >>

\* a call of FundDataFetcher.get_historical_data(fund_code, days)
GetHistoricalData ==
    /\ op = "init"
    /\ \E resp \in HistDataResponses :
        /\ op' = "get_historical_data"
        /\ net_values' = get_historical_data(resp)
        /\ result' = [status |-> "ok"]
        /\ UNCHANGED << args, calls, invoked, ma_data, position_analysis, report, config >>

\* FundAnalyzer.get_fund_analysis, continuing from the series its call of
\* get_historical_data returned
GetFundAnalysis ==
    /\ op = "get_historical_data"
    /\ \E cur \in CurrentResponses, alt \in AlternativeResponses,
          cost_basis \in CostBases, amount \in Amounts,
          include_ma_analysis \in BOOLEAN, sc \in MaScenarios :
        LET ma == analyze_fund(sc.resps, None, sc.aux)
            r == AnalyzeHistorical(get_fund_data(cur, alt), net_values, cost_basis, amount,
                                   include_ma_analysis, ma)
        IN  /\ op' = "get_fund_analysis"
            /\ args' = [start_date |-> None, cost_basis |-> cost_basis, amount |-> amount,
                        include_ma_analysis |-> include_ma_analysis]
            /\ invoked' = r.invoked
            /\ result' = r
            /\ UNCHANGED << net_values, calls, ma_data, position_analysis, report, config >>

\* a call of FundDataFetcher.get_fund_data(fund_code)
GetFundData ==
    /\ op = "init"
    /\ \E cur \in CurrentResponses, alt \in AlternativeResponses :
        /\ op' = "get_fund_data"
        /\ args' = [start_date |-> None, cur |-> cur, alt |-> alt]
        /\ calls' = FundDataEndpoints(cur)
        /\ result' = Return(get_fund_data(cur, alt))
        /\ UNCHANGED << net_values, invoked, ma_data, position_analysis, report, config >>

Next ==
    \/ GetHistoricalNetValues
    \/ AnalyzeFund
    \/ GetHistoricalData
    \/ GetFundAnalysis
    \/ GetFundData

Spec == Init /\ [][Next]_vars

-----------------------------------------------------------------------------
(* Specification SpecMA: calculate_moving_averages and analyze_position on *)
(* a generated series                                                      *)

InitMA ==
    /\ op = "init"
    /\ args = NoArgs
    /\ net_values \in SeriesSet
    /\ calls = << >>
    /\ invoked = {}
    /\ result = NoOutcome
    /\ ma_data = NoOutcome
    /\ position_analysis = NoOutcome
    /\ report = ReportIdle
    /\ config = EmptyConfig

CalculateMovingAverages ==
    /\ op = "init"
    /\ ma_data = NoOutcome
    /\ op' = "calculate_moving_averages"
    /\ ma_data' = calculate_moving_averages(net_values)
    /\ UNCHANGED << args, net_values, calls, invoked, result, position_analysis, report, config >>

AnalyzePosition ==
    /\ op # "analyze_position"
    /\ ma_data.status = "ok"
    /\ op' = "analyze_position"
    /\ position_analysis' = analyze_position(ma_data.value)
    /\ UNCHANGED << args, net_values, calls, invoked, result, ma_data, report, config >>

NextMA ==
    \/ CalculateMovingAverages
    \/ AnalyzePosition

SpecMA == InitMA /\ [][NextMA]_vars

-----------------------------------------------------------------------------
(* Specification SpecPos: analyze_position on an arbitrary MovingAverageSet *)

\* deviations around every band edge of a window, and far beyond them
BandEdges == [ma20 |-> { 500, 1000 }, ma60 |-> { 800, 1500 },
              ma250 |-> { 1000, 2000 }, ma500 |-> { 1500, 2500 }]

DevValues(k) ==
    { 0, MaxDev, -MaxDev }
    \cup { t : t \in BandEdges[k] } \cup { t + 1 : t \in BandEdges[k] }
    \cup { -t : t \in BandEdges[k] } \cup { -t - 1 : t \in BandEdges[k] }

DeviationMaps ==
    { [k \in W |-> f[k]] :
        W \in SUBSET MaKeys,
        f \in [ma20 : DevValues("ma20"), ma60 : DevValues("ma60"),
               ma250 : DevValues("ma250"), ma500 : DevValues("ma500")] }

MaSetOf(deviation) ==
    [current_nav |-> 10000,
     ma20  |-> IF "ma20" \in DOMAIN deviation THEN Some(10000) ELSE None,
     ma60  |-> IF "ma60" \in DOMAIN deviation THEN Some(10000) ELSE None,
     ma250 |-> IF "ma250" \in DOMAIN deviation THEN Some(10000) ELSE None,
     ma500 |-> IF "ma500" \in DOMAIN deviation THEN Some(10000) ELSE None,
     deviation |-> deviation]

InitPos ==
    /\ op = "init"
    /\ args = NoArgs
    /\ net_values = << >>
    /\ calls = << >>
    /\ invoked = {}
    /\ result = NoOutcome
    /\ ma_data \in { Return(MaSetOf(d)) : d \in DeviationMaps }
    /\ position_analysis = NoOutcome
    /\ report = ReportIdle
    /\ config = EmptyConfig

NextPos == AnalyzePosition

SpecPos == InitPos /\ [][NextPos]_vars

-----------------------------------------------------------------------------
(* FundManager.generate_daily_report (src/main.py)                         *)

\* the whole of FundAnalyzer.get_fund_analysis: u is the upstream's
\* behaviour during the call
get_fund_analysis(u, cost_basis, amount, start_date, include_ma_analysis) ==
    AnalyzeHistorical(get_fund_data(u.cur, u.alt), get_historical_data(u.hist),
                      cost_basis, amount, include_ma_analysis,
                      analyze_fund(u.ma.resps, start_date, u.ma.aux))

\* the block format_analysis_report renders for one fund
format_analysis_report(code, analysis) ==
    IF "error" \in DOMAIN analysis
    THEN [code |-> code, text |-> "error"]
    ELSE [code |-> code, text |-> analysis.position_analysis.signal]

Holding == [cost_basis : { 0, 10000 }, amount : Amounts]

RECURSIVE HoldingLists(_)
HoldingLists(n) ==
    IF n = 0 THEN { << >> }
    ELSE LET shorter == HoldingLists(n - 1)
         IN  shorter \cup { Append(s, h) : s \in { t \in shorter : Len(t) = n - 1 },
                                           h \in Holding }

\* the upstream's behaviour while one holding is analysed
HoldingScenarios ==
    [cur : { [kind |-> "list", date |-> Today] },
     alt : { [kind |-> "timeout", gztime |-> None] },
     hist : { [kind |-> "timeout", items |-> << >>],
              [kind |-> "list", items |-> PageOf(<< 10000, 10100, 10200, 10300, 10500 >>)] },
     ma : MaScenarios]

\* fund codes: holdings are numbered 1 .. n, watched funds 101 .. 100 + m
WatchCode(j) == 100 + j

InitReport ==
    /\ op = "init"
    /\ args = NoArgs
    /\ net_values = << >>
    /\ calls = << >>
    /\ invoked = {}
    /\ result = NoOutcome
    /\ ma_data = NoOutcome
    /\ position_analysis = NoOutcome
    /\ config = EmptyConfig
    /\ \E h \in HoldingLists(MaxFunds) \ { << >> }, w \in 0 .. 1, inc \in BOOLEAN :
        report = [pc |-> "holdings",
                  holdings |-> h,
                  watchlist |-> w,
                  include_ma_analysis |-> inc,
                  i |-> 1,
                  attempted |-> << >>,
                  analysis_results |-> << >>,
                  ma_reports |-> << >>,
                  sent |-> FALSE]

\* where the method goes once the holdings loop is over
AfterHoldings(r) ==
    IF r.watchlist > 0 /\ r.include_ma_analysis THEN "watchlist" ELSE "build"

\* one iteration of "for code, holding in self.holdings.items()"
AnalyzeHolding ==
    /\ report.pc = "holdings"
    /\ \E u \in HoldingScenarios :
        LET code == report.i
            holding == report.holdings[code]
            analysis == get_fund_analysis(u, holding.cost_basis, holding.amount, None,
                                          report.include_ma_analysis)
            last == (code = Len(report.holdings))
        IN  /\ op' = "get_fund_analysis"
            /\ result' = analysis
            /\ report' =
                IF analysis.status = "raise"
                THEN [report EXCEPT !.pc = "raised",
                                    !.attempted = Append(@, code)]
                ELSE [report EXCEPT
                        !.pc = IF last THEN AfterHoldings(report) ELSE "holdings",
                        !.i = IF last THEN 1 ELSE code + 1,
                        !.attempted = Append(@, code),
                        !.analysis_results =
                            IF analysis.value # None
                            THEN Append(@, [code |-> code, returns |-> analysis.value[1].returns])
                            ELSE @,
                        !.ma_reports =
                            IF /\ analysis.value # None
                               /\ report.include_ma_analysis
                               /\ analysis.value[1].ma_analysis # None
                            THEN Append(@, format_analysis_report(code,
                                                analysis.value[1].ma_analysis[1]))
                            ELSE @]
    /\ UNCHANGED << args, net_values, calls, invoked, ma_data, position_analysis, config >>

\* one iteration of "for code, watch_info in self.watchlist.items()"
AnalyzeWatched ==
    /\ report.pc = "watchlist"
    /\ \E sc \in MaScenarios :
        LET code == WatchCode(report.i)
            ma_analysis == analyze_fund(sc.resps, None, sc.aux)
            last == (report.i = report.watchlist)
        IN  /\ op' = "analyze_fund"
            /\ result' = ma_analysis
            /\ report' =
                IF ma_analysis.status = "raise"
                THEN [report EXCEPT !.pc = "raised",
                                    !.attempted = Append(@, code)]
                ELSE [report EXCEPT
                        !.pc = IF last THEN "build" ELSE "watchlist",
                        !.i = IF last THEN 1 ELSE report.i + 1,
                        !.attempted = Append(@, code),
                        !.ma_reports =
                            IF "error" \notin DOMAIN ma_analysis.value
                            THEN Append(@, format_analysis_report(code, ma_analysis.value))
                            ELSE @]
    /\ UNCHANGED << args, net_values, calls, invoked, ma_data, position_analysis, config >>

\* "if analysis_results or ma_reports": build the report and send it
BuildReport ==
    /\ report.pc = "build"
    /\ op' = "generate_daily_report"
    /\ report' = [report EXCEPT
                    !.pc = "done",
                    !.sent = (report.analysis_results # << >> \/ report.ma_reports # << >>)]
    /\ UNCHANGED << args, net_values, calls, invoked, result, ma_data, position_analysis, config >>

NextReport ==
    \/ AnalyzeHolding
    \/ AnalyzeWatched
    \/ BuildReport

SpecReport == InitReport /\ [][NextReport]_vars

\* the funds the configuration lists, in the order the method visits them
ConfiguredFunds(r) ==
    [j \in 1 .. Len(r.holdings) |-> j]
    \o (IF r.watchlist > 0 /\ r.include_ma_analysis
        THEN [j \in 1 .. r.watchlist |-> WatchCode(j)] ELSE << >>)

-----------------------------------------------------------------------------
(* Specification SpecCalc: calculate_returns, predict_price and the        *)
(* moving averages of a prediction, on a drawn series and drawn arguments  *)

\* NAVs of the drawn series, oldest first
CalcNavs ==
    { << >>,
      << 40000 >>,
      << 10000, 10100, 10200, 10300 >>,
      << 10000, 10000, 10000, 10000, 10000 >>,
      << 10000, 10100, 10200, 10300, 10500 >>,
      << 10500, 10400, 10000, 10100, 9900, 9800 >>,
      << 0, 0, 0, 0, 0, 0 >>,
      [i \in 1 .. 12 |-> 10000 + 37 * i],
      [i \in 1 .. 22 |-> 12000 - 100 * i],
      [i \in 1 .. 22 |-> 9000 + 50 * i],
      [i \in 1 .. 20 |-> 10000],
      [i \in 1 .. 21 |-> IF i <= 14 THEN 11000 - 100 * i ELSE 9600 + 60 * (i - 14)] }

\* the series get_historical_data returns for these NAVs
CalcSeries == { get_historical_data([kind |-> "list", items |-> PageOf(navs)]) : navs \in CalcNavs }

CalcCostBases == { -10000, 0, 7000, 10000, 12500 }
CalcAmounts == { -10000, 0, 10000, 1000000 }

InitCalc ==
    /\ op = "init"
    /\ net_values \in CalcSeries
    /\ args \in [start_date : { None }, cost_basis : CalcCostBases, amount : CalcAmounts,
                 days : 0 .. MaxDays]
    /\ calls = << >>
    /\ invoked = {}
    /\ result = NoOutcome
    /\ ma_data = NoOutcome
    /\ position_analysis = NoOutcome
    /\ report = ReportIdle
    /\ config = EmptyConfig

\* a call of FundAnalyzer.calculate_returns(historical_data, cost_basis, amount)
CalculateReturns ==
    /\ op = "init"
    /\ op' = "calculate_returns"
    /\ result' = calculate_returns(net_values, args.cost_basis, args.amount)
    /\ UNCHANGED << args, net_values, calls, invoked, ma_data, position_analysis, report, config >>

\* a call of FundAnalyzer.predict_price(historical_data, days)
PredictPrice ==
    /\ op = "init"
    /\ op' = "predict_price"
    /\ result' = Return(predict_price(net_values, args.days))
    /\ UNCHANGED << args, net_values, calls, invoked, ma_data, position_analysis, report, config >>

\* a call of FundAnalyzer.analyze_trend(historical_data)
AnalyzeTrend ==
    /\ op = "init"
    /\ op' = "analyze_trend"
    /\ result' = Return(analyze_trend(net_values))
    /\ UNCHANGED << args, net_values, calls, invoked, ma_data, position_analysis, report, config >>

\* the list predict_price returned is passed to calculate_moving_averages
PredictionToMovingAverages ==
    /\ op = "predict_price"
    /\ result.value # None
    /\ op' = "calculate_moving_averages"
    /\ ma_data' = calculate_moving_averages(result.value[1])
    /\ UNCHANGED << args, net_values, calls, invoked, result, position_analysis, report, config >>

NextCalc ==
    \/ CalculateReturns
    \/ PredictPrice
    \/ AnalyzeTrend
    \/ PredictionToMovingAverages

SpecCalc == InitCalc /\ [][NextCalc]_vars

-----------------------------------------------------------------------------
(* ConfigManager (src/config_manager.py) and specification SpecConfig:     *)
(* the operations on the configuration, from an empty configuration        *)

\* d[key] = value  and  del d[key]
DictSet(d, key, value) == [k \in DOMAIN d \cup { key } |-> IF k = key THEN value ELSE d[k]]
DictDel(d, key) == [k \in DOMAIN d \ { key } |-> d[k]]

InitConfig ==
    /\ op = "init"
    /\ args = NoArgs
    /\ net_values = << >>
    /\ calls = << >>
    /\ invoked = {}
    /\ result = NoOutcome
    /\ ma_data = NoOutcome
    /\ position_analysis = NoOutcome
    /\ report = ReportIdle
    /\ config = EmptyConfig

\* the effect of a call: cfg is the configuration the operation leaves, saved
\* whether it reached save_config, io whether save_config could write the
\* file (the configuration in memory is changed either way)
Called(fund_code, cfg, saved, io) ==
    /\ args' = [start_date |-> None, fund_code |-> fund_code]
    /\ config' = cfg
    /\ result' = Return(saved /\ io)
    /\ UNCHANGED << net_values, calls, invoked, ma_data, position_analysis, report >>

\* choice is the user's answer to the overwrite prompt, asked only when the
\* code is already in holdings
AddHolding ==
    \E fund_code \in 1 .. MaxCodes, choice \in { "y", "n" }, io \in BOOLEAN :
        /\ op' = "add_holding"
        /\ IF fund_code \in DOMAIN config.holdings /\ choice # "y"
           THEN Called(fund_code, config, FALSE, io)
           ELSE Called(fund_code,
                       [config EXCEPT !.holdings =
                           DictSet(@, fund_code, [name |-> "fund", invested |-> TRUE])],
                       TRUE, io)

AddWatchlist ==
    \E fund_code \in 1 .. MaxCodes, choice \in { "y", "n" }, io \in BOOLEAN :
        /\ op' = "add_watchlist"
        /\ IF fund_code \in DOMAIN config.watchlist /\ choice # "y"
           THEN Called(fund_code, config, FALSE, io)
           ELSE Called(fund_code,
                       [config EXCEPT !.watchlist =
                           DictSet(@, fund_code, [name |-> "fund", invested |-> FALSE])],
                       TRUE, io)

RemoveFund ==
    \E fund_code \in 1 .. MaxCodes, fund_type \in { "holding", "watchlist", "other" },
       io \in BOOLEAN :
        /\ op' = "remove_fund"
        /\ IF fund_type = "holding" /\ fund_code \in DOMAIN config.holdings
           THEN Called(fund_code, [config EXCEPT !.holdings = DictDel(@, fund_code)], TRUE, io)
           ELSE IF fund_type = "watchlist" /\ fund_code \in DOMAIN config.watchlist
           THEN Called(fund_code, [config EXCEPT !.watchlist = DictDel(@, fund_code)], TRUE, io)
           ELSE Called(fund_code, config, FALSE, io)

\* for fund_code in fund_codes: delete it from the lists fund_type names;
\* the configuration is saved when something was deleted
BatchDeleteFunds ==
    \E fund_codes \in { << c >> : c \in 1 .. MaxCodes }
                      \cup { << c, d >> : c, d \in 1 .. MaxCodes },
       fund_type \in { "holding", "watchlist", "both" }, io \in BOOLEAN :
        LET RECURSIVE Loop(_, _)
            Loop(cfg, codes) ==
                IF codes = << >> THEN [config |-> cfg, saved |-> FALSE]
                ELSE
                    LET fund_code == codes[1]
                        inH == /\ fund_type \in { "holding", "both" }
                               /\ fund_code \in DOMAIN cfg.holdings
                        inW == /\ fund_type \in { "watchlist", "both" }
                               /\ fund_code \in DOMAIN cfg.watchlist
                        next == [holdings |-> IF inH THEN DictDel(cfg.holdings, fund_code)
                                              ELSE cfg.holdings,
                                 watchlist |-> IF inW THEN DictDel(cfg.watchlist, fund_code)
                                               ELSE cfg.watchlist]
                        rest == Loop(next, Tail(codes))
                    IN  [config |-> rest.config, saved |-> (inH \/ inW \/ rest.saved)]
            r == Loop(config, fund_codes)
        IN  /\ op' = "batch_delete_funds"
            /\ Called(fund_codes[1], r.config, r.saved, io)

\* an item is [fund_code, ok]: unpacking or float() of a malformed item
\* raises inside the try and the item is skipped; neither list is consulted
BatchAddHoldings ==
    \E holdings_list \in
           { << [fund_code |-> c, ok |-> TRUE] >> : c \in 1 .. MaxCodes }
           \cup { << [fund_code |-> c, ok |-> b], [fund_code |-> d, ok |-> TRUE] >> :
                   c, d \in 1 .. MaxCodes, b \in BOOLEAN },
       io \in BOOLEAN :
        LET RECURSIVE Loop(_, _)
            Loop(cfg, items) ==
                IF items = << >> THEN [config |-> cfg, saved |-> FALSE]
                ELSE
                    LET item == items[1]
                        next == IF item.ok
                                THEN [cfg EXCEPT !.holdings =
                                         DictSet(@, item.fund_code,
                                                 [name |-> "fund", invested |-> TRUE])]
                                ELSE cfg
                        rest == Loop(next, Tail(items))
                    IN  [config |-> rest.config, saved |-> (item.ok \/ rest.saved)]
            r == Loop(config, holdings_list)
        IN  /\ op' = "batch_add_holdings"
            /\ Called(holdings_list[1].fund_code, r.config, r.saved, io)

BatchAddWatchlist ==
    \E watchlist_items \in
           { << [fund_code |-> c, ok |-> TRUE] >> : c \in 1 .. MaxCodes }
           \cup { << [fund_code |-> c, ok |-> b], [fund_code |-> d, ok |-> TRUE] >> :
                   c, d \in 1 .. MaxCodes, b \in BOOLEAN },
       io \in BOOLEAN :
        LET RECURSIVE Loop(_, _)
            Loop(cfg, items) ==
                IF items = << >> THEN [config |-> cfg, saved |-> FALSE]
                ELSE
                    LET item == items[1]
                        next == IF item.ok
                                THEN [cfg EXCEPT !.watchlist =
                                         DictSet(@, item.fund_code,
                                                 [name |-> "fund", invested |-> FALSE])]
                                ELSE cfg
                        rest == Loop(next, Tail(items))
                    IN  [config |-> rest.config, saved |-> (item.ok \/ rest.saved)]
            r == Loop(config, watchlist_items)
        IN  /\ op' = "batch_add_watchlist"
            /\ Called(watchlist_items[1].fund_code, r.config, r.saved, io)

ClearHoldings ==
    \E confirm \in { "YES", "no" }, io \in BOOLEAN :
        /\ op' = "clear_holdings"
        /\ IF config.holdings = << >> \/ confirm # "YES"
           THEN Called(0, config, FALSE, io)
           ELSE Called(0, [config EXCEPT !.holdings = << >>], TRUE, io)

ClearWatchlist ==
    \E confirm \in { "YES", "no" }, io \in BOOLEAN :
        /\ op' = "clear_watchlist"
        /\ IF config.watchlist = << >> \/ confirm # "YES"
           THEN Called(0, config, FALSE, io)
           ELSE Called(0, [config EXCEPT !.watchlist = << >>], TRUE, io)

ClearAll ==
    \E confirm \in { "YES", "no" }, io \in BOOLEAN :
        /\ op' = "clear_all"
        /\ IF (config.holdings = << >> /\ config.watchlist = << >>) \/ confirm # "YES"
           THEN Called(0, config, FALSE, io)
           ELSE Called(0, EmptyConfig, TRUE, io)

\* the entry is rewritten in place; the keys of the dict do not change
UpdateHolding ==
    \E fund_code \in 1 .. MaxCodes, io \in BOOLEAN :
        /\ op' = "update_holding"
        /\ Called(fund_code, config, fund_code \in DOMAIN config.holdings, io)

UpdateWatchlist ==
    \E fund_code \in 1 .. MaxCodes, io \in BOOLEAN :
        /\ op' = "update_watchlist"
        /\ Called(fund_code, config, fund_code \in DOMAIN config.watchlist, io)

\* the entry is written to the destination, then deleted from the origin
MoveToHolding ==
    \E fund_code \in 1 .. MaxCodes, io \in BOOLEAN :
        /\ op' = "move_to_holding"
        /\ IF fund_code \notin DOMAIN config.watchlist
           THEN Called(fund_code, config, FALSE, io)
           ELSE Called(fund_code,
                       [holdings |-> DictSet(config.holdings, fund_code,
                                             [name |-> config.watchlist[fund_code].name,
                                              invested |-> TRUE]),
                        watchlist |-> DictDel(config.watchlist, fund_code)],
                       TRUE, io)

MoveToWatchlist ==
    \E fund_code \in 1 .. MaxCodes, io \in BOOLEAN :
        /\ op' = "move_to_watchlist"
        /\ IF fund_code \notin DOMAIN config.holdings
           THEN Called(fund_code, config, FALSE, io)
           ELSE Called(fund_code,
                       [holdings |-> DictDel(config.holdings, fund_code),
                        watchlist |-> DictSet(config.watchlist, fund_code,
                                              [name |-> config.holdings[fund_code].name,
                                               invested |-> FALSE])],
                       TRUE, io)

NextConfig ==
    \/ AddHolding
    \/ AddWatchlist
    \/ RemoveFund
    \/ BatchDeleteFunds
    \/ BatchAddHoldings
    \/ BatchAddWatchlist
    \/ ClearHoldings
    \/ ClearWatchlist
    \/ ClearAll
    \/ UpdateHolding
    \/ UpdateWatchlist
    \/ MoveToHolding
    \/ MoveToWatchlist

SpecConfig == InitConfig /\ [][NextConfig]_vars

-----------------------------------------------------------------------------
(* Properties                                                              *)

\* C1: get_historical_net_values invokes its strategies in the order
\* api1, api2, ttjj; a strategy is invoked only after every earlier one
\* returned an empty result or raised; the first non-empty series is what
\* the call returns and no strategy is invoked after it.
FallbackOrder ==
    op \in { "get_historical_net_values", "analyze_fund" } =>
        /\ Len(calls) <= NumApis
        /\ \A k \in 1 .. Len(calls) :
            /\ calls[k].api = k
            /\ \A j \in 1 .. (k - 1) : calls[j].outcome \in { "empty", "raise" }
            /\ calls[k].outcome = "data" => (k = Len(calls) /\ net_values = calls[k].value)

\* the first strategy raised, the second returned data, the third was not invoked
SecondStrategyWins ==
    /\ op = "get_historical_net_values"
    /\ Len(calls) = 2
    /\ calls[1].outcome = "raise"
    /\ calls[2].outcome = "data"
    /\ net_values # << >>

\* C2: an exception raised by a strategy never leaves
\* get_historical_net_values: the next strategy is invoked, and when no
\* strategy produced data all three were invoked and the call returns [].
StrategyFailuresStayLocal ==
    op = "get_historical_net_values" =>
        /\ result.status = "ok"
        /\ \A k \in 1 .. Len(calls) :
            (calls[k].outcome = "raise" /\ k < NumApis) => Len(calls) > k
        /\ (\A k \in 1 .. Len(calls) : calls[k].outcome # "data") =>
                (Len(calls) = NumApis /\ net_values = << >>)

AllStrategiesRaised ==
    /\ op = "get_historical_net_values"
    /\ Len(calls) = NumApis
    /\ \A k \in 1 .. NumApis : calls[k].outcome = "raise"
    /\ net_values = << >>
    /\ result.status = "ok"

\* C3 as stated: with an empty series the analysis call (analyze_fund or
\* get_fund_analysis) returns a tagged failure carrying a reason and
\* invokes none of the computations.
EmptySeriesTaggedFailure ==
    (op \in { "analyze_fund", "get_fund_analysis" } /\ net_values = << >>) =>
        /\ result.status = "ok"
        /\ "error" \in DOMAIN result.value
        /\ invoked = {}

\* C3 as amended: with an empty series no computation is invoked;
\* analyze_fund returns a record tagged with an error reason, while
\* get_fund_analysis returns None, which carries no reason.
EmptySeriesFailure ==
    /\ (op = "analyze_fund" /\ net_values = << >>) =>
            /\ result.status = "ok"
            /\ "error" \in DOMAIN result.value
            /\ invoked = {}
    /\ (op = "get_fund_analysis" /\ net_values = << >>) =>
            /\ result.status = "ok"
            /\ result.value = None
            /\ invoked = {}

EmptyHistoryAnalysed ==
    /\ op = "get_fund_analysis"
    /\ net_values = << >>
    /\ args.include_ma_analysis
    /\ result.value = None

\* C4 as stated: generate_daily_report is never cut short by one fund's
\* failure: it ends having attempted every configured fund.
BatchNeverAborted ==
    /\ report.pc # "raised"
    /\ report.pc = "done" => report.attempted = ConfiguredFunds(report)

\* C5: a failure of an auxiliary endpoint never fails analyze_fund: no
\* exception comes out of the auxiliary functions, the record carries the
\* moving averages and the position assessment, and each failed signal
\* is a marker with has_data = false.
AuxiliaryFailuresDegrade ==
    (op = "analyze_fund" /\ net_values # << >>) =>
        /\ result.status = "raise" => result.in = "calculate_moving_averages"
        /\ result.status = "ok" =>
            /\ DOMAIN result.value.moving_averages = MaKeys
            /\ result.value.position_analysis # EmptyDict
            /\ (args.aux.include_flow /\ FlowFailed(args.aux)) =>
                    (result.value.flow_info # None /\ ~result.value.flow_info[1].has_data)
            /\ (args.aux.include_flow /\ ScaleFailed(args.aux)) =>
                    (result.value.scale_info # None /\ ~result.value.scale_info[1].has_data)
            /\ (args.aux.include_hot /\ HotFailed(args.aux)) =>
                    (result.value.hot_info # None /\ ~result.value.hot_info[1].has_data)

AllAuxiliaryFailed ==
    /\ op = "analyze_fund"
    /\ Len(net_values) >= MA20
    /\ result.status = "ok"
    /\ args.aux.include_flow /\ args.aux.include_hot
    /\ args.aux.flow.kind = "neterr"
    /\ args.aux.scale.kind = "status"
    /\ args.aux.hot.kind = "neterr"
    /\ result.value.deviation # EmptyDict

\* C6 as stated: for a non-empty series calculate_moving_averages returns,
\* for each window W, the mean of the last W NAVs and a deviation when the
\* series has at least W observations, and nothing for W otherwise,
\* whatever the other windows are.
WindowsIndependent ==
    (op = "calculate_moving_averages" /\ net_values # << >>) =>
        /\ ma_data.status = "ok"
        /\ \A k \in MaKeys :
            IF Len(net_values) >= periods[k]
            THEN /\ ma_data.value[k] =
                        Some(RoundHalfEven(WindowSum(NavList(net_values), periods[k]),
                                           periods[k]))
                 /\ k \in DOMAIN ma_data.value.deviation
            ELSE /\ ma_data.value[k] = None
                 /\ k \notin DOMAIN ma_data.value.deviation

\* C7 as stated: calculate_moving_averages raises no division error.
NoDivisionByZero ==
    op = "calculate_moving_averages" => ma_data.status # "raise"

\* C8 as stated: for every present window the rounded deviation is
\* positive exactly when the current NAV exceeds the window's average.
DeviationSignExact ==
    (op = "calculate_moving_averages" /\ ma_data.status = "ok" /\ net_values # << >>) =>
        \A k \in DOMAIN ma_data.value.deviation :
            (ma_data.value.current_nav * periods[k]
                    > WindowSum(NavList(net_values), periods[k]))
                <=> (ma_data.value.deviation[k] > 0)

\* C8 as amended: the rounded deviation never has the wrong sign: it is
\* positive only if the current NAV exceeds the window's average, negative
\* only if the NAV is below it, and 0 when they are equal; it may be 0
\* when the NAV differs from the average by less than 0.005 %.
DeviationSignConsistent ==
    (op = "calculate_moving_averages" /\ ma_data.status = "ok" /\ net_values # << >>) =>
        \A k \in DOMAIN ma_data.value.deviation :
            LET cur == ma_data.value.current_nav * periods[k]
                sum == WindowSum(NavList(net_values), periods[k])
                dev == ma_data.value.deviation[k]
            IN  /\ dev > 0 => cur > sum
                /\ dev < 0 => cur < sum
                /\ cur > sum => dev >= 0
                /\ cur < sum => dev <= 0
                /\ cur = sum => dev = 0

\* the NAV is above the monthly average by less than 0.005 %: the
\* deviation rounds to 0.00
SmallDeviationRoundsToZero ==
    /\ op = "calculate_moving_averages"
    /\ ma_data.status = "ok"
    /\ Len(net_values) = MA20
    /\ ma_data.value.current_nav * MA20 > WindowSum(NavList(net_values), MA20)
    /\ ma_data.value.deviation["ma20"] = 0

\* C9: the strength analyze_position returns lies in [-5, 5].
StrengthInRange ==
    op = "analyze_position" =>
        (position_analysis.strength >= -5 /\ position_analysis.strength <= 5)

\* every window is far below its average: the sum 12 is clamped to 5
AllWindowsOversold ==
    /\ op = "analyze_position"
    /\ DOMAIN ma_data.value.deviation = MaKeys
    /\ \A k \in MaKeys : ma_data.value.deviation[k] = -MaxDev
    /\ position_analysis.strength = 5

\* C10: the clamped score selects position and signal together:
\* >= 3 low/strong_buy, [1,3) medium_low/buy, (-1,1) medium/hold,
\* (-3,-1] medium_high/sell, <= -3 high/strong_sell.
SignalBuckets ==
    op = "analyze_position" =>
        LET score == position_analysis.strength
            pair == << position_analysis.position, position_analysis.signal >>
        IN  /\ score >= 3 => pair = << "low", "strong_buy" >>
            /\ (score >= 1 /\ score < 3) => pair = << "medium_low", "buy" >>
            /\ (score > -1 /\ score < 1) => pair = << "medium", "hold" >>
            /\ (score > -3 /\ score <= -1) => pair = << "medium_high", "sell" >>
            /\ score <= -3 => pair = << "high", "strong_sell" >>

\* the score -1, the closed end of the sell bucket
SellAtMinusOne ==
    /\ op = "analyze_position"
    /\ position_analysis.strength = -1
    /\ position_analysis.signal = "sell"
    /\ position_analysis.position = "medium_high"

\* C11: predict_price returns None for every series of fewer than 5
\* observations; for a series of at least 5 observations and days >= 1
\* it returns exactly days points whose day fields are 1, 2, ..., days in
\* that order.
PredictionCount ==
    op = "predict_price" =>
        /\ Len(net_values) < 5 => result.value = None
        /\ (Len(net_values) >= 5 /\ args.days >= 1) =>
                /\ result.value # None
                /\ Len(result.value[1]) = args.days
                /\ \A i \in 1 .. args.days : result.value[1][i].day = i

\* a series of exactly 5 observations predicted over several days
FivePointsPredicted ==
    /\ op = "predict_price"
    /\ Len(net_values) = 5
    /\ args.days >= 3
    /\ result.value # None
    /\ Len(result.value[1]) = args.days
    /\ result.value[1][args.days].day = args.days

\* C12 as stated: the predicted_change of every point is the change from
\* the latest NAV to that point's predicted_nav (the smoothed prediction),
\* up to the rounding of the two fields (0.02 %).
ChangeFromSmoothedPrediction ==
    (op = "predict_price" /\ result.value # None /\ net_values[Len(net_values)].nav > 0) =>
        \A i \in 1 .. Len(result.value[1]) :
            LET current_nav == net_values[Len(net_values)].nav
                point == result.value[1][i]
            IN  /\ point.predicted_change.fin
                /\ Abs(point.predicted_change.v
                       - ScaledDivRound(point.predicted_nav - current_nav, current_nav, 4)) <= 2

\* C13: for a non-empty series and a cost basis for which the quotient
\* is defined, calculate_returns takes the NAV of the last element as the
\* latest NAV and returns return_rate = (latest - cost) / cost x 100,
\* total_profit = amount x return_rate / 100, shares = amount / cost and
\* market_value = shares x latest, each rounded to 2 decimals, and
\* current_nav = latest; cost 1.0, amount 10000, latest 1.05 give 5.00,
\* 500.00, 10000.00 and 10500.00.
ReturnsFromLatestNav ==
    (op = "calculate_returns" /\ net_values # << >> /\ args.cost_basis # 0) =>
        /\ result.status = "ok"
        /\ result.value # None
        /\ LET latest == net_values[Len(net_values)].nav
               cost == args.cost_basis
               amount == args.amount
               r == result.value[1]
           IN  /\ r.current_nav = latest
               /\ r.return_rate = ScaledDivRound(latest - cost, cost, 4)
               /\ r.total_profit = MulDivRound(amount, latest - cost, cost)
               /\ r.shares = MulDivRound(amount, 10000, cost)
               /\ r.market_value = MulDivRound(amount, latest, cost)
               /\ (cost = 10000 /\ amount = 1000000 /\ latest = 10500) =>
                    /\ r.return_rate = 500
                    /\ r.total_profit = 50000
                    /\ r.shares = 1000000
                    /\ r.market_value = 1050000

\* the spec's scenario, on a series whose first NAV is not the latest
ReturnScenario ==
    /\ op = "calculate_returns"
    /\ Len(net_values) = 5
    /\ net_values[1].nav = 10000
    /\ net_values[5].nav = 10500
    /\ args.cost_basis = 10000
    /\ args.amount = 1000000
    /\ result.status = "ok"
    /\ result.value[1].return_rate = 500
    /\ result.value[1].market_value = 1050000

\* reported market_value - reported shares x reported current_nav, in
\* 1/10000 of a cent (the product is formed from quotient and remainder)
MarketValueGap(r) ==
    (r.market_value - (r.shares \div 10000) * r.current_nav) * 10000
        - (r.shares % 10000) * r.current_nav

\* amount / cost_basis - reported shares, in 1/100 share, times cost_basis
SharesGap(r, amount) ==
    ((amount \div r.cost_basis) * 10000 - r.shares) * r.cost_basis
        + (amount % r.cost_basis) * 10000

\* C14 as stated: for positive cost basis, amount and NAV, the reported
\* market_value equals the reported shares x the reported current_nav and
\* the reported shares equals amount / cost_basis, both within 0.01.
ReturnSummaryWithinCent ==
    (/\ op = "calculate_returns" /\ net_values # << >>
     /\ args.cost_basis > 0 /\ args.amount > 0
     /\ net_values[Len(net_values)].nav > 0) =>
        /\ result.status = "ok"
        /\ Abs(MarketValueGap(result.value[1])) <= 10000
        /\ Abs(SharesGap(result.value[1], args.amount)) <= result.value[1].cost_basis

\* C14 as amended: for positive cost basis, amount and NAV, the reported
\* shares is within 0.005 of amount / cost_basis, and the reported
\* market_value is within 0.005 x (1 + current_nav) of the reported
\* shares x the reported current_nav: the rounding error of shares is
\* multiplied by the NAV.
ReturnSummaryConsistent ==
    (/\ op = "calculate_returns" /\ net_values # << >>
     /\ args.cost_basis > 0 /\ args.amount > 0
     /\ net_values[Len(net_values)].nav > 0) =>
        /\ result.status = "ok"
        /\ 2 * Abs(MarketValueGap(result.value[1])) <= 10000 + result.value[1].current_nav
        /\ 2 * Abs(SharesGap(result.value[1], args.amount)) <= result.value[1].cost_basis

\* NAV 4.0, cost basis 0.7, amount 10000: shares 14285.71, market value
\* 57142.86, while 14285.71 x 4.0 = 57142.84
MarketValueOffByTwoCents ==
    /\ op = "calculate_returns"
    /\ args.cost_basis = 7000
    /\ args.amount = 1000000
    /\ net_values # << >>
    /\ result.status = "ok"
    /\ result.value[1].current_nav = 40000
    /\ result.value[1].shares = 1428571
    /\ result.value[1].market_value = 5714286
    /\ MarketValueGap(result.value[1]) = 20000

\* C15 as stated: with a non-positive cost basis or a non-positive amount
\* calculate_returns raises no arithmetic error and computes no
\* ReturnSummary.
InvalidInputRejected ==
    (/\ op = "calculate_returns" /\ net_values # << >>
     /\ (args.cost_basis <= 0 \/ args.amount <= 0)) =>
        /\ result.status = "ok"
        /\ (result.value = None \/ "return_rate" \notin DOMAIN result.value[1])

\* C16 as stated: when the request of get_fund_data to the primary
\* endpoint times out or raises a network error, the alternative endpoint
\* is requested and its outcome is what the call returns.
TimeoutAdvancesToAlternative ==
    (op = "get_fund_data" /\ args.cur.kind \in { "timeout", "neterr" }) =>
        /\ calls = << "primary", "alternative" >>
        /\ result.value = _get_fund_data_alternative(args.alt)

\* C17 as stated: a series that comes from the latest-estimate strategy is
\* exactly one record, and the record carries a key that the records of
\* the structured history do not have.
EstimateMarked ==
    (/\ op = "get_historical_net_values"
     /\ calls # << >>
     /\ calls[Len(calls)].api = 2
     /\ calls[Len(calls)].outcome = "data") =>
        /\ Len(net_values) = 1
        /\ DOMAIN net_values[1] # HistoryKeys

\* C18 as stated: every series a fetcher returns is sorted ascending by date.
FetchedSeriesSorted ==
    op \in { "get_historical_net_values", "get_historical_data" } =>
        \A i \in 1 .. Len(net_values) - 1 : net_values[i].date <= net_values[i + 1].date

\* C19 as stated: for a series of at least 5 observations, passing the
\* list predict_price returned to calculate_moving_averages raises nothing.
PredictionFeedsMovingAverages ==
    (op = "calculate_moving_averages" /\ Len(net_values) >= 5) => ma_data.status = "ok"

\* C20 as stated: for a series of identical NAVs every present window
\* average equals that NAV, every deviation is 0.00, and analyze_position
\* returns strength 0, signal hold and position medium.
FlatSeriesNeutral ==
    (/\ op \in { "calculate_moving_averages", "analyze_position" }
     /\ net_values # << >>
     /\ \A i \in 1 .. Len(net_values) : net_values[i].nav = net_values[1].nav) =>
        /\ ma_data.status = "ok"
        /\ \A k \in PresentWindows(NavList(net_values)) :
            /\ ma_data.value[k] = Some(net_values[1].nav)
            /\ ma_data.value.deviation[k] = 0
        /\ op = "analyze_position" =>
            /\ position_analysis.strength = 0
            /\ position_analysis.signal = "hold"
            /\ position_analysis.position = "medium"

SmoothingIsRecursive ==
    (op = "predict_price" /\ result.value # None) =>
        LET navs == NavList(net_values)
            w == Min(3, args.days)
        IN  \A i \in 1 .. Len(result.value[1]) :
                result.value[1][i].predicted_nav =
                    SmoothedNavRecursive(navs, w, i - 1)

\* C22 as amended: the smoothing pass reads the raw predictions only; no
\* smoothed value enters a later point.  The raw predictions lie on the
\* regression line, so the value of point 2 is the line halfway between
\* steps 1 and 2 and, with 3 or more days, the value of every later point
\* i is the raw prediction of step i - 1.
SmoothingFromRawOnly ==
    (op = "predict_price" /\ result.value # None) =>
        LET navs == NavList(net_values)
            points == result.value[1]
        IN  /\ points[1].predicted_nav = RoundHalfEven(RawNum(navs, 0), RawDen(navs))
            /\ Len(points) >= 2 =>
                points[2].predicted_nav =
                    RoundHalfEven(RawNum(navs, 0) + RawNum(navs, 1), 2 * RawDen(navs))
            /\ \A i \in 3 .. Len(points) :
                points[i].predicted_nav = RoundHalfEven(RawNum(navs, i - 2), RawDen(navs))

\* on a falling series the third point is the second raw prediction, which
\* a recursive average would not give
ThirdPointIsSecondRaw ==
    /\ op = "predict_price"
    /\ args.days = 3
    /\ result.value # None
    /\ result.value[1][3].predicted_nav
            = RoundHalfEven(RawNum(NavList(net_values), 1), RawDen(NavList(net_values)))
    /\ result.value[1][3].predicted_nav
            # SmoothedNavRecursive(NavList(net_values), 3, 2)
    /\ net_values[Len(net_values)].nav < net_values[1].nav

\* C23 as stated: the details list of analyze_position has exactly one
\* line for every window present in the deviations.
DetailLinePerWindow ==
    (op = "analyze_position" /\ position_analysis # EmptyDict) =>
        Len(position_analysis.details) = Cardinality(DOMAIN ma_data.value.deviation)

\* C23 as amended: the details list has one line, in processing order, for
\* every present window whose deviation lies outside the near-zero band,
\* and none for a window inside it; such a window only adds a position
\* hint, so the position_detail shows min(2, present windows) hints.
DetailLinePerScoringWindow ==
    (op = "analyze_position" /\ position_analysis # EmptyDict) =>
        LET deviation == ma_data.value.deviation
            details == position_analysis.details
        IN  /\ { details[i].ma : i \in 1 .. Len(details) }
                    = { k \in DOMAIN deviation : WindowScore(k, deviation[k]) # 0 }
            /\ Len(details) = Cardinality({ details[i].ma : i \in 1 .. Len(details) })
            /\ Len(position_analysis.position_detail)
                    = Min(2, Cardinality(DOMAIN deviation))

\* all four windows present, only the quarterly one outside its near-zero band
OneLineForFourWindows ==
    /\ op = "analyze_position"
    /\ DOMAIN ma_data.value.deviation = MaKeys
    /\ ma_data.value.deviation["ma20"] = 0
    /\ ma_data.value.deviation["ma60"] = 801
    /\ ma_data.value.deviation["ma250"] = 1000
    /\ ma_data.value.deviation["ma500"] = -1500
    /\ Len(position_analysis.details) = 1
    /\ position_analysis.details[1].ma = "ma60"

\* C24 as stated: the windows named in position_detail are the most
\* significant ones: no present window left out of it has a larger score
\* contribution (in absolute value) than a window named in it.
DetailNamesMostSignificant ==
    (op = "analyze_position" /\ position_analysis # EmptyDict) =>
        LET deviation == ma_data.value.deviation
            shown == { position_analysis.position_detail[i].ma :
                        i \in 1 .. Len(position_analysis.position_detail) }
        IN  \A j \in shown, k \in DOMAIN deviation \ shown :
                Abs(WindowScore(j, deviation[j])) >= Abs(WindowScore(k, deviation[k]))

\* C25 as stated: the largest contribution of a window is non-decreasing
\* along 20, 60, 250, 500: when a single window lies beyond its deepest
\* band, the strength is at least what any shorter window contributes at
\* the same deviation.
WeightGrowsWithLength ==
    (/\ op = "analyze_position" /\ position_analysis # EmptyDict
     /\ Cardinality(DOMAIN ma_data.value.deviation) = 1) =>
        \A k \in DOMAIN ma_data.value.deviation :
            Abs(ma_data.value.deviation[k]) = MaxDev =>
                \A j \in MaKeys :
                    periods[j] < periods[k] =>
                        Abs(WindowScore(j, ma_data.value.deviation[k]))
                            <= Abs(position_analysis.strength)

\* C25 as amended: the largest contributions are 2, 3, 4 and 3 for the
\* windows 20, 60, 250 and 500: they grow up to the yearly window, and the
\* 500-day window weighs as much as the quarterly one, less than the
\* yearly one.
WeightPeaksAtYearLine ==
    (/\ op = "analyze_position" /\ position_analysis # EmptyDict
     /\ Cardinality(DOMAIN ma_data.value.deviation) = 1) =>
        \A k \in DOMAIN ma_data.value.deviation :
            /\ Abs(position_analysis.strength)
                    <= (CASE k = "ma20" -> 2 [] k = "ma60" -> 3
                          [] k = "ma250" -> 4 [] k = "ma500" -> 3)
            /\ Abs(ma_data.value.deviation[k]) = MaxDev =>
                Abs(position_analysis.strength)
                    = (CASE k = "ma20" -> 2 [] k = "ma60" -> 3
                         [] k = "ma250" -> 4 [] k = "ma500" -> 3)

\* the 500-day window alone, far below its average: strength 3
LongWindowAtDeepestBand ==
    /\ op = "analyze_position"
    /\ DOMAIN ma_data.value.deviation = { "ma500" }
    /\ ma_data.value.deviation["ma500"] = -MaxDev
    /\ position_analysis.strength = 3

\* C26 as stated: given an empty series, calculate_returns returns a
\* summary computed with the cost basis as current NAV: return rate 0 and
\* total profit 0.
EmptySeriesZeroReturn ==
    (op = "calculate_returns" /\ net_values = << >>) =>
        /\ result.status = "ok"
        /\ result.value # None
        /\ result.value[1].current_nav = args.cost_basis
        /\ result.value[1].return_rate = 0
        /\ result.value[1].total_profit = 0

\* C26 as amended: given an empty series, calculate_returns returns None
\* before any arithmetic, whatever the cost basis and the amount are; the
\* substitution of the cost basis for the NAV is never reached.
EmptySeriesNoSummary ==
    (op = "calculate_returns" /\ net_values = << >>) => result = Return(None)

\* an empty series with cost basis 0: None, and no division
EmptySeriesZeroCostBasis ==
    /\ op = "calculate_returns"
    /\ net_values = << >>
    /\ args.cost_basis = 0
    /\ result.status = "ok"
    /\ result.value = None

\* C27: the strength of analyze_position is non-increasing in each
\* window's deviation: with the present windows and the other deviations
\* unchanged, a larger deviation of one window never gives a larger
\* strength.
StrengthMonotone ==
    (op = "analyze_position" /\ position_analysis # EmptyDict) =>
        LET deviation == ma_data.value.deviation
        IN  \A k \in DOMAIN deviation :
                \A v \in DevValues(k) :
                    v >= deviation[k] =>
                        analyze_position(MaSetOf([deviation EXCEPT ![k] = v])).strength
                            <= position_analysis.strength

\* the monthly window just below -5 %: strength 1, and 0 once it is at -5 %
StrengthDropsAtBandEdge ==
    /\ op = "analyze_position"
    /\ DOMAIN ma_data.value.deviation = { "ma20", "ma60" }
    /\ ma_data.value.deviation["ma20"] = -501
    /\ ma_data.value.deviation["ma60"] = 0
    /\ position_analysis.strength = 1
    /\ analyze_position(MaSetOf([ma_data.value.deviation EXCEPT !["ma20"] = -500])).strength = 0

\* C28: for a non-empty series of fewer than 20 observations analyze_fund
\* returns a record without an error marker, with no window present and
\* the position assessment strength 0, signal hold, position medium and
\* an empty details list.
ShortHistoryReportedNeutral ==
    (op = "analyze_fund" /\ net_values # << >> /\ Len(net_values) < MA20) =>
        /\ result.status = "ok"
        /\ "error" \notin DOMAIN result.value
        /\ \A k \in MaKeys : result.value.moving_averages[k] = None
        /\ result.value.deviation = EmptyDict
        /\ result.value.position_analysis.strength = 0
        /\ result.value.position_analysis.signal = "hold"
        /\ result.value.position_analysis.position = "medium"
        /\ result.value.position_analysis.details = << >>

\* the latest-estimate strategy won the fallback: one record is analysed
EstimateRecordAnalysed ==
    /\ op = "analyze_fund"
    /\ Len(calls) = 2
    /\ calls[2].outcome = "data"
    /\ Len(net_values) = 1
    /\ result.status = "ok"
    /\ result.value.data_points = 1
    /\ result.value.position_analysis.signal = "hold"

\* C29: analyze_trend reports the up-trend exactly when MA5 > MA10 > MA20
\* and the down-trend exactly when MA5 < MA10 < MA20 at the latest record,
\* with strict comparisons, and the sideways trend otherwise; for 5 to 19
\* observations, where MA20 is NaN, it reports the sideways trend; for
\* fewer than 5 observations it reports insufficient data with strength 0
\* and volatility 0.
TrendFromOrderedAverages ==
    op = "analyze_trend" =>
        LET navs == NavList(net_values)
            n == Len(navs)
            trend == result.value.trend
        IN  /\ n < 5 => result.value = [trend |-> "insufficient", strength |-> Fin(0),
                                        volatility |-> Fin(0)]
            /\ n >= 5 => trend \in { "up", "down", "sideways" }
            /\ (n >= 5 /\ n < MA20) => (trend = "sideways" /\ result.value.ma20 = NaN)
            /\ n >= MA20 =>
                LET ma5x20 == 4 * SumRange(navs, n - 4, n)
                    ma10x20 == 2 * SumRange(navs, n - 9, n)
                    ma20x20 == SumRange(navs, n - 19, n)
                IN  /\ trend = "up" <=> (ma5x20 > ma10x20 /\ ma10x20 > ma20x20)
                    /\ trend = "down" <=> (ma5x20 < ma10x20 /\ ma10x20 < ma20x20)

\* 20 identical NAVs: the three averages are equal, the trend is sideways
EqualAveragesSideways ==
    /\ op = "analyze_trend"
    /\ Len(net_values) = 20
    /\ \A i \in 1 .. 20 : net_values[i].nav = 10000
    /\ result.value.trend = "sideways"
    /\ result.value.ma5 = Fin(10000)
    /\ result.value.ma20 = Fin(10000)

\* C30 as stated: after any sequence of ConfigManager operations from an
\* empty configuration, no fund code is in both holdings and watchlist.
HoldingsWatchlistDisjoint ==
    DOMAIN config.holdings \cap DOMAIN config.watchlist = {}

=============================================================================
